---- MODULE Spec2Model ----
(***************************************************************************)
(* Model of gotodocumentation.py: the GotoDocumentationCommand text        *)
(* command (scope -> handler dispatch, JS library detection), the          *)
(* CommandThread worker that runs a local command, and the output panel.   *)
(*                                                                         *)
(* Strings are sequences of one-character strings wherever the code looks  *)
(* at characters (scope names, the buffer, the word under the cursor).     *)
(* A literal that the code only ever concatenates (a URL prefix, the       *)
(* status text) is kept as one element, so "prefix%s" % word is            *)
(* <<prefix>> \o word.                                                     *)
(***************************************************************************)
EXTENDS Integers, Sequences, FiniteSets, TLC

VARIABLES
    scope_name,      \* what view.scope_name(word.begin()) returns (raw)
    pre_text,        \* the buffer's text before the word under the cursor
    keyword,         \* view.substr(view.word(region)): the word itself
    runs,            \* number of times the command has been run
    opened,          \* URLs handed to open_url, in order
    status,          \* texts handed to sublime.status_message, in order
    errors,          \* exceptions that escaped a handler of the plugin
    extracted,       \* values of extracted_scope, in order
    detected,        \* results of detect_js_library, in order
    threads,         \* CommandThread objects, in order of creation
    ui_queue,        \* callbacks scheduled with sublime.set_timeout(..., 0)
    has_output_view, \* hasattr(self, 'output_view')
    panels_created,  \* number of get_output_panel calls
    panel_text,      \* content of the output panel
    read_only,       \* the output panel's read-only flag
    displayed        \* arguments of the display_output calls, in order

vars == <<scope_name, pre_text, keyword, runs, opened, status, errors, extracted, detected,
          threads, ui_queue, has_output_view, panels_created, panel_text,
          read_only, displayed>>

----------------------------------------------------------------------------
(* Bounds of the model *)

\* number of times the command is run in one behaviour
MaxRuns == 2
\* number of dot-separated segments before a scope's last segment
MaxSegs == 2
\* length of the exhaustively enumerated texts before the word
MaxPreLen == 4
\* length of the filler inside the long parenthesised texts before the word
MaxPad == 33

\* max_backreference as passed by run
MaxBackreference == 32

----------------------------------------------------------------------------
(* Characters and strings *)

Whitespace == {" ", "\t", "\n", "\r"}
Separators == {"$", "(", ")", "."}

Min(a, b) == IF a < b THEN a ELSE b
Max(a, b) == IF a < b THEN b ELSE a

K_php        == <<"p", "h", "p">>
K_rails      == <<"r", "a", "i", "l", "s">>
K_controller == <<"c", "o", "n", "t", "r", "o", "l", "l", "e", "r">>
K_ruby       == <<"r", "u", "b", "y">>
K_js         == <<"j", "s">>
K_coffee     == <<"c", "o", "f", "f", "e", "e">>
K_python     == <<"p", "y", "t", "h", "o", "n">>
K_clojure    == <<"c", "l", "o", "j", "u", "r", "e">>
K_go         == <<"g", "o">>
K_smarty     == <<"s", "m", "a", "r", "t", "y">>
K_jquery     == <<"j", "q", "u", "e", "r", "y">>
K_dojo       == <<"d", "o", "j", "o">>

\* the "_doc" of '%s_doc'
DocSuffix == <<"_", "d", "o", "c">>

\* the falsy result of detect_js_library (None / False)
NoLib == <<>>

----------------------------------------------------------------------------
(* str.strip() and str.rpartition('.')[2] *)

RECURSIVE lstrip(_)
lstrip(s) ==
    IF s # <<>> /\ Head(s) \in Whitespace THEN lstrip(Tail(s)) ELSE s

RECURSIVE rstrip(_)
rstrip(s) ==
    IF s # <<>> /\ s[Len(s)] \in Whitespace
    THEN rstrip(SubSeq(s, 1, Len(s) - 1))
    ELSE s

strip(s) == rstrip(lstrip(s))

\* index of the last "." of s, 0 when s holds none
RECURSIVE rfind_dot(_, _)
rfind_dot(s, i) ==
    IF i = 0 THEN 0
    ELSE IF s[i] = "." THEN i
    ELSE rfind_dot(s, i - 1)

\* variant: the text after the FIRST "." (str.partition)
rpartition_first(s) ==
    IF \E i \in 1..Len(s) : s[i] = "."
    THEN LET i == CHOOSE k \in 1..Len(s) :
                      s[k] = "." /\ \A m \in 1..(k - 1) : s[m] # "."
         IN SubSeq(s, i + 1, Len(s))
    ELSE s

\* s.rpartition('.')[2]: the text after the last "." (all of s without one)
rpartition(s) == SubSeq(s, rfind_dot(s, Len(s)) + 1, Len(s))

\* lines 69-70: scope = scope_name(...).strip(); scope.rpartition('.')[2]
extracted_scope(raw) == rpartition(strip(raw))

----------------------------------------------------------------------------
(* What a handler does: one effect *)

open_url(url)      == [kind |-> "url", value |-> url]
status_message(t)  == [kind |-> "status", value |-> t]
run_command(cmd)   == [kind |-> "thread", value |-> cmd]
Raise(exc)         == [kind |-> "error", value |-> exc]

\* variant: the scope itself is not part of the message
unsupported_silent(kw, scope) ==
    status_message(<<"This scope is not supported: ">>)

unsupported(kw, scope) ==
    status_message(<<"This scope is not supported: ">> \o rpartition(scope))

php_doc(kw, scope)        == open_url(<<"http://php.net/">> \o kw)
rails_doc(kw, scope)      == open_url(<<"http://api.rubyonrails.org/?q=">> \o kw)
controller_doc(kw, scope) == open_url(<<"http://api.rubyonrails.org/?q=">> \o kw)
ruby_doc(kw, scope)       == open_url(<<"http://api.rubyonrails.org/?q=">> \o kw)

\* variant: the word is cut at its first whitespace
js_doc_first_word(kw, scope) ==
    open_url(<<"https://developer.mozilla.org/en-US/search?q=">>
             \o SubSeq(kw, 1,
                       IF \E i \in 1..Len(kw) : kw[i] \in Whitespace
                       THEN (CHOOSE i \in 1..Len(kw) :
                                kw[i] \in Whitespace
                                /\ \A m \in 1..(i - 1) : kw[m] \notin Whitespace) - 1
                       ELSE Len(kw)))

js_doc(kw, scope) ==
    open_url(<<"https://developer.mozilla.org/en-US/search?q=">> \o kw)

\* re.match(r'\s', keyword): a match at the START of the word only
re_match_space(kw) == kw # <<>> /\ kw[1] \in Whitespace

python_doc(kw, scope) ==
    IF ~ re_match_space(kw)
    THEN run_command(<< <<"pydoc">>, kw >>)
    ELSE open_url(<<"http://docs.python.org/search.html?q=">> \o kw)

clojure_doc(kw, scope) == open_url(<<"http://clojuredocs.org/search?x=0&y=0&q=">> \o kw)
go_doc(kw, scope)      == open_url(<<"http://golang.org/search?q=">> \o kw)
smarty_doc(kw, scope)  == open_url(<<"http://www.smarty.net/">> \o kw)
jquery_doc(kw)         == open_url(<<"http://api.jquery.com/">> \o kw)
dojo_doc(kw)           == open_url(<<"http://dojotoolkit.org/api/dojo.">> \o kw)

\* The attributes of the command object whose name ends in "_doc", each with
\* the method it is bound to (coffee_doc = js_doc) and that method's number of
\* parameters after self.
Attributes ==
    { [name |-> K_php \o DocSuffix,        method |-> "php_doc",        arity |-> 2],
      [name |-> K_rails \o DocSuffix,      method |-> "rails_doc",      arity |-> 2],
      [name |-> K_controller \o DocSuffix, method |-> "controller_doc", arity |-> 2],
      [name |-> K_ruby \o DocSuffix,       method |-> "ruby_doc",       arity |-> 2],
      [name |-> K_js \o DocSuffix,         method |-> "js_doc",         arity |-> 2],
      [name |-> K_coffee \o DocSuffix,     method |-> "js_doc",         arity |-> 2],
      [name |-> K_python \o DocSuffix,     method |-> "python_doc",     arity |-> 2],
      [name |-> K_clojure \o DocSuffix,    method |-> "clojure_doc",    arity |-> 2],
      [name |-> K_go \o DocSuffix,         method |-> "go_doc",         arity |-> 2],
      [name |-> K_smarty \o DocSuffix,     method |-> "smarty_doc",     arity |-> 2],
      [name |-> K_jquery \o DocSuffix,     method |-> "jquery_doc",     arity |-> 1],
      [name |-> K_dojo \o DocSuffix,       method |-> "dojo_doc",       arity |-> 1] }

Unsupported == [name |-> <<>>, method |-> "unsupported", arity |-> 2]

\* getattr(self, name, self.unsupported)
getattr(name) ==
    IF \E a \in Attributes : a.name = name
    THEN CHOOSE a \in Attributes : a.name = name
    ELSE Unsupported

\* a bound method called with args: Python checks the number of arguments
Call(m, args) ==
    IF Len(args) # m.arity THEN Raise("TypeError")
    ELSE CASE m.method = "php_doc"        -> php_doc(args[1], args[2])
           [] m.method = "rails_doc"      -> rails_doc(args[1], args[2])
           [] m.method = "controller_doc" -> controller_doc(args[1], args[2])
           [] m.method = "ruby_doc"       -> ruby_doc(args[1], args[2])
           [] m.method = "js_doc"         -> js_doc(args[1], args[2])
           [] m.method = "python_doc"     -> python_doc(args[1], args[2])
           [] m.method = "clojure_doc"    -> clojure_doc(args[1], args[2])
           [] m.method = "go_doc"         -> go_doc(args[1], args[2])
           [] m.method = "smarty_doc"     -> smarty_doc(args[1], args[2])
           [] m.method = "jquery_doc"     -> jquery_doc(args[1])
           [] m.method = "dojo_doc"       -> dojo_doc(args[1])
           [] OTHER                       -> unsupported(args[1], args[2])

----------------------------------------------------------------------------
(* The view: the buffer around the word, and detect_js_library *)

\* The buffer up to the end of the word. Offsets are 0-based as in the editor.
buffer == pre_text \o keyword

\* view.word(region).a: the offset at which the word starts
sel_word_a == Len(pre_text)

\* view.substr(sublime.Region(a, b)): the characters between the two offsets,
\* whichever is the larger; offsets outside the buffer are clamped to it.
substr(a, b) ==
    LET lo == Max(0, Min(a, b))
        hi == Min(Len(buffer), Max(a, b))
    IN IF lo >= hi THEN <<>> ELSE SubSeq(buffer, lo + 1, hi)

\* variant: the character right before the word
pre_sel_word_adjacent == [a |-> sel_word_a - 1, b |-> sel_word_a]

\* pre_sel_word = sublime.Region(sel_word.a - 2, sel_word.a - 1)
pre_sel_word == [a |-> sel_word_a - 2, b |-> sel_word_a - 1]

\* variant: three characters instead of four
dojo_region_short == [a |-> pre_sel_word.a - 2, b |-> pre_sel_word.b]

\* region = sublime.Region(pre_sel_word.a - 3, pre_sel_word.b)
dojo_region == [a |-> pre_sel_word.a - 3, b |-> pre_sel_word.b]

\* for i in range(1, max_backreference): ... break
RECURSIVE selector_scan(_, _)
selector_scan(i, max_backreference) ==
    IF i >= max_backreference THEN NoLib
    ELSE LET region == [a |-> pre_sel_word.a - i, b |-> pre_sel_word.a - (i + 1)]
         IN IF substr(region.a, region.b) = <<"(">>
            THEN LET before == [a |-> region.a - 1, b |-> region.b - 1]
                 IN IF substr(before.a, before.b) = <<"$">> THEN K_jquery ELSE NoLib
            ELSE selector_scan(i + 1, max_backreference)

\* The three tests are on one character, so at most one of them assigns lib.
detect_js_library(max_backreference) ==
    LET pre_string == substr(pre_sel_word.a, pre_sel_word.b)
    IN IF pre_string = <<"$">> THEN K_jquery
       ELSE IF pre_string = <<"o">>
            THEN (IF substr(dojo_region.a, dojo_region.b) = K_dojo
                  THEN K_dojo ELSE NoLib)
       ELSE IF pre_string = <<")">>
            THEN selector_scan(1, max_backreference)
       ELSE NoLib

----------------------------------------------------------------------------
(* GotoDocumentationCommand.run, for a selection of one region *)

\* What run does for the region: the library detect_js_library reported (or
\* <<>> when it was not asked) and the handler's effect.
Dispatch ==
    LET scope == strip(scope_name)
        key   == extracted_scope(scope_name)
    IN IF key \o DocSuffix # K_js \o DocSuffix
       THEN [key |-> key, asked |-> FALSE, lib |-> NoLib,
             effect |-> Call(getattr(key \o DocSuffix), <<keyword, scope>>)]
       ELSE LET js_lib == detect_js_library(MaxBackreference)
            IN [key |-> key, asked |-> TRUE, lib |-> js_lib,
                effect |-> IF js_lib = NoLib
                           THEN js_doc(keyword, scope)
                           ELSE Call(getattr(js_lib \o DocSuffix), <<keyword>>)]

\* thread = CommandThread(command, callback); thread.start()
NewThread(command) ==
    [st |-> "started", command |-> command, code |-> -1, calls |-> <<>>]

Apply(d) ==
    /\ opened' = IF d.effect.kind = "url"
                 THEN Append(opened, d.effect.value) ELSE opened
    /\ status' = IF d.effect.kind = "status"
                 THEN Append(status, d.effect.value) ELSE status
    /\ errors' = IF d.effect.kind = "error"
                 THEN Append(errors, d.effect.value) ELSE errors
    /\ threads' = IF d.effect.kind = "thread"
                  THEN Append(threads, NewThread(d.effect.value)) ELSE threads
    /\ extracted' = Append(extracted, d.key)
    /\ detected' = IF d.asked THEN Append(detected, d.lib) ELSE detected

run ==
    /\ runs < MaxRuns
    /\ runs' = runs + 1
    /\ IF keyword = <<>>
       THEN UNCHANGED <<opened, status, errors, threads, extracted, detected>>
       ELSE Apply(Dispatch)
    /\ UNCHANGED <<scope_name, pre_text, keyword, ui_queue, has_output_view,
                   panels_created, panel_text, read_only, displayed>>

----------------------------------------------------------------------------
(* CommandThread.run and the callback it schedules *)

\* What the local command can do: the executable may not start at all
\* (Popen raises OSError); otherwise it ends with an exit status and the
\* bytes it wrote to its output.
ExitCodes == {0, 1}
Outputs   == { <<72>>, <<195, 169>>, <<255>> }
Outcomes  == [spawned : BOOLEAN, code : ExitCodes, output : Outputs]

\* bytes.decode('utf-8') for one- and two-byte sequences: the code points, or
\* UnicodeDecodeError
RECURSIVE utf8_decode(_)
utf8_decode(bytes) ==
    IF bytes = <<>> THEN [ok |-> TRUE, text |-> <<>>]
    ELSE IF bytes[1] < 128
         THEN LET rest == utf8_decode(Tail(bytes))
              IN [ok |-> rest.ok, text |-> <<bytes[1]>> \o rest.text]
    ELSE IF /\ bytes[1] \in 194..223
            /\ Len(bytes) >= 2
            /\ bytes[2] \in 128..191
         THEN LET rest == utf8_decode(SubSeq(bytes, 3, Len(bytes)))
              IN [ok |-> rest.ok,
                  text |-> <<(bytes[1] - 192) * 64 + (bytes[2] - 128)>> \o rest.text]
    ELSE [ok |-> FALSE, text |-> <<>>]

\* _make_text_safeish(text, fallback_encoding) with the fallback_encoding ""
\* CommandThread gets from run_command: text.decode("") raises LookupError.
make_text_safeish(text) ==
    LET uni == utf8_decode(text)
    IN IF uni.ok THEN [exc |-> "none", text |-> uni.text]
       ELSE [exc |-> "LookupError", text |-> <<>>]

\* The try block of CommandThread.run: the exception it raises ("none" when it
\* runs through) and the callback argument it has scheduled by then.
\* Popen and communicate raise no CalledProcessError, whatever the exit status.
try_block(outcome) ==
    IF ~ outcome.spawned THEN [exc |-> "OSError", calls |-> <<>>]
    ELSE LET safe == make_text_safeish(outcome.output)
         IN IF safe.exc # "none" THEN [exc |-> safe.exc, calls |-> <<>>]
            ELSE [exc |-> "none",
                  calls |-> << [kind |-> "output", text |-> safe.text] >>]

CommandThread_run(t) ==
    /\ threads[t].st = "started"
    /\ \E outcome \in Outcomes :
         LET body == try_block(outcome)
             code == IF outcome.spawned THEN outcome.code ELSE -1
             \* except subprocess.CalledProcessError, e:
             calls == IF body.exc = "CalledProcessError"
                      THEN << [kind |-> "returncode", code |-> code] >>
                      ELSE body.calls
             st == IF body.exc \in {"none", "CalledProcessError"}
                   THEN "finished" ELSE "died"
         IN /\ threads' = [threads EXCEPT ![t] =
                              [st |-> st, command |-> @.command,
                               code |-> code, calls |-> calls]]
            \* main_thread: sublime.set_timeout(partial(on_done, ...), 0)
            /\ ui_queue' = ui_queue \o calls
    /\ UNCHANGED <<scope_name, pre_text, keyword, runs, opened, status, errors,
                   extracted, detected, has_output_view, panels_created, panel_text,
                   read_only, displayed>>

\* variant: nothing is erased before the insert
erased_region_empty(size) == [a |-> 0, b |-> 0]

\* region = sublime.Region(0, self.output_view.size())
erased_region(size) == [a |-> 0, b |-> size]

erase(text, region) ==
    SubSeq(text, 1, region.a) \o SubSeq(text, region.b + 1, Len(text))

insert(text, at, new) ==
    SubSeq(text, 1, at) \o new \o SubSeq(text, at + 1, Len(text))

\* The UI thread runs the oldest scheduled callback: display_output(output).
display_output ==
    /\ ui_queue # <<>>
    /\ LET output == Head(ui_queue)
       IN /\ ui_queue' = Tail(ui_queue)
          /\ has_output_view' = TRUE
          /\ panels_created' = IF has_output_view THEN panels_created
                               ELSE panels_created + 1
          /\ displayed' = Append(displayed, output)
          /\ IF output.kind = "output"
             THEN /\ panel_text' = insert(erase(panel_text, erased_region(Len(panel_text))),
                                          0, output.text)
                  /\ read_only' = TRUE
                  /\ errors' = errors
             ELSE \* insert of a number raises: the panel stays erased and writable
                  /\ panel_text' = erase(panel_text, erased_region(Len(panel_text)))
                  /\ read_only' = FALSE
                  /\ errors' = Append(errors, "TypeError")
    /\ UNCHANGED <<scope_name, pre_text, keyword, runs, opened, status,
                   extracted, detected, threads>>

----------------------------------------------------------------------------
(* The views the command is run on *)

CharClass(c) ==
    IF c \in Whitespace THEN "space"
    ELSE IF c \in Separators THEN "separator"
    ELSE "word"

\* view.word(region) ends at word boundaries: the character before the word
\* is not of the same class as the word's first character.
WordBoundary(pre, kw) ==
    \/ pre = <<>>
    \/ kw = <<>>
    \/ CharClass(pre[Len(pre)]) # CharClass(kw[1])

SeqsUpTo(S, n) == UNION { [1..k -> S] : k \in 0..n }

RECURSIVE Repeat(_, _)
Repeat(c, n) == IF n = 0 THEN <<>> ELSE <<c>> \o Repeat(c, n - 1)

RECURSIVE Join(_)
Join(segs) ==
    IF segs = <<>> THEN <<>>
    ELSE IF Len(segs) = 1 THEN segs[1]
    ELSE segs[1] \o <<".">> \o Join(Tail(segs))

LastSegments ==
    { K_php, K_rails, K_controller, K_ruby, K_js, K_coffee, K_python,
      K_clojure, K_go, K_smarty, K_jquery, K_dojo,
      <<"P", "H", "P">>, <<"x">>, <<"_">>, <<>> }
LeadSegments == { <<"a">>, K_js }
Pads == { <<>>, <<" ">> }

\* scope_name returns at least one scope, and may pad it with whitespace
ScopeBodies ==
    ({ Join(segs \o <<last>>) :
         segs \in SeqsUpTo(LeadSegments, MaxSegs), last \in LastSegments }
     \cup { <<"a", ".", "b", " ", "c", ".">> \o last : last \in LastSegments })
    \ { <<>> }
ScopeNames ==
    { lead \o body \o trail : lead \in Pads, trail \in Pads, body \in ScopeBodies }

Keywords == { <<>>, <<"f">>, <<"m", " ", "f">>, <<" ", "f">>, <<".">> }

ShortTexts == SeqsUpTo({"$", "(", ")", ".", "o"}, MaxPreLen)
DojoTexts ==
    { <<"d", "o", "j", "o">>, <<"d", "o", "j", "o", ".">>,
      <<"d", "o", "j", "o", " ">>, <<"x", "o", "j", "o", ".">>,
      <<"o", "j", "o", ".">>, <<"a", "d", "o", "j", "o", ".">>,
      <<"d", "o", "j", "o", ".", ".">> }
ParenTexts ==
    { head \o <<"(">> \o Repeat("a", k) \o tail :
        head \in { <<"$">>, <<"x">>, <<>> }, k \in 0..MaxPad,
        tail \in { <<")", ".">>, <<")">> } }
    \cup { <<"$", "(", "f", "(", "a", ")", ")", ".">>,
           <<"f", "(", "$", "(", "a", ")", ")", ".">>,
           <<"$", "(", "a", ")", "(", "b", ")", ".">> }
PreTexts == ShortTexts \cup DojoTexts \cup ParenTexts
FewTexts == { <<"$", ".">> }

JsScopes == { K_js, <<"a", ".">> \o K_js }

Views ==
    { v \in (JsScopes \X PreTexts \X Keywords)
            \cup (ScopeNames \X FewTexts \X Keywords) :
        WordBoundary(v[2], v[3]) }

Init ==
    /\ \E v \in Views :
         /\ scope_name = v[1]
         /\ pre_text = v[2]
         /\ keyword = v[3]
    /\ runs = 0
    /\ opened = <<>>
    /\ status = <<>>
    /\ errors = <<>>
    /\ extracted = <<>>
    /\ detected = <<>>
    /\ threads = <<>>
    /\ ui_queue = <<>>
    /\ has_output_view = FALSE
    /\ panels_created = 0
    /\ panel_text = <<>>
    /\ read_only = FALSE
    /\ displayed = <<>>

Next ==
    \/ run
    \/ \E t \in DOMAIN threads : CommandThread_run(t)
    \/ display_output

Spec == Init /\ [][Next]_vars

----------------------------------------------------------------------------
(* The specification's vocabulary, stated independently of the code *)

\* the rightmost dot-separated segment of a label: its suffix that holds no
\* "." and is either the whole label or preceded by a "."
RightmostSegment(label) ==
    CHOOSE t \in { SubSeq(label, i, Len(label)) : i \in 1..(Len(label) + 1) } :
        /\ \A k \in DOMAIN t : t[k] # "."
        /\ \/ Len(t) = Len(label)
           \/ label[Len(label) - Len(t)] = "."

\* a label without its leading and trailing whitespace: from its first to its
\* last character that is not whitespace
Trimmed(label) ==
    LET solid == { i \in DOMAIN label : label[i] \notin Whitespace }
    IN IF solid = {} THEN <<>>
       ELSE SubSeq(label,
                   CHOOSE i \in solid : \A k \in solid : i <= k,
                   CHOOSE j \in solid : \A k \in solid : k <= j)

\* the handler table of the specification: key -> URL template
UrlTemplate(key) ==
    CASE key = K_php        -> "http://php.net/"
      [] key = K_rails      -> "http://api.rubyonrails.org/?q="
      [] key = K_controller -> "http://api.rubyonrails.org/?q="
      [] key = K_ruby       -> "http://api.rubyonrails.org/?q="
      [] key = K_js         -> "https://developer.mozilla.org/en-US/search?q="
      [] key = K_coffee     -> "https://developer.mozilla.org/en-US/search?q="
      [] key = K_python     -> "http://docs.python.org/search.html?q="
      [] key = K_clojure    -> "http://clojuredocs.org/search?x=0&y=0&q="
      [] key = K_go         -> "http://golang.org/search?q="
      [] key = K_smarty     -> "http://www.smarty.net/"
      [] key = K_jquery     -> "http://api.jquery.com/"
      [] key = K_dojo       -> "http://dojotoolkit.org/api/dojo."

UrlFor(key, token) == <<UrlTemplate(key)>> \o token

PlainUrlKeys ==
    { K_php, K_rails, K_controller, K_ruby, K_coffee, K_clojure, K_go, K_smarty }
RegisteredKeys == PlainUrlKeys \cup { K_js, K_python, K_jquery, K_dojo }

\* every dispatch so far opened exactly the URL u and did nothing else
OpenedOnly(u) ==
    /\ Len(opened) = runs
    /\ \A i \in 1..runs : opened[i] = u
    /\ threads = <<>>
    /\ status = <<>>
    /\ errors = <<>>

Contains(text, part) ==
    \E i \in 0..(Len(text) - Len(part)) : SubSeq(text, i + 1, i + Len(part)) = part

\* the character n places before the word (n = 1: the one next to it)
CharBefore(n) ==
    IF Len(pre_text) >= n THEN pre_text[Len(pre_text) - n + 1] ELSE ""

----------------------------------------------------------------------------
(* C1 *)

\* C1: for a non-empty token and a label whose rightmost segment is php,
\* rails, controller, ruby, coffee, clojure, go or smarty, or is js while
\* detect_js_library reports no library, every dispatch opens exactly one URL,
\* the key's template followed by the token verbatim, starts no local command,
\* and reports no status message.
C1_TemplateUrlOnly ==
    LET key == RightmostSegment(scope_name)
    IN (/\ keyword # <<>>
        /\ scope_name # <<>>
        /\ \/ key \in PlainUrlKeys
           \/ key = K_js /\ \A i \in DOMAIN detected : detected[i] = NoLib)
       => OpenedOnly(UrlFor(key, keyword))

C1_Witness ==
    /\ runs = 1
    /\ RightmostSegment(scope_name) = K_php
    /\ keyword = <<"m", " ", "f">>
    /\ opened = << <<"http://php.net/", "m", " ", "f">> >>

----------------------------------------------------------------------------
(* C2 *)

\* every js dispatch so far found jquery and opened the jQuery URL only
JqueryOnly ==
    /\ Len(detected) = runs
    /\ \A i \in 1..runs : detected[i] = K_jquery
    /\ OpenedOnly(UrlFor(K_jquery, keyword))

\* C2 as stated: key js and the character immediately before the token is "$"
\* => jquery is detected and http://api.jquery.com/{token} is opened, not MDN.
C2_AdjacentDollar ==
    (/\ keyword # <<>>
     /\ RightmostSegment(scope_name) = K_js
     /\ CharBefore(1) = "$")
    => JqueryOnly

\* C2 amended: key js and the character two places before the token (the one
\* before the character next to the token, as the "$" of "$.token") is "$"
\* => jquery is detected and http://api.jquery.com/{token} is opened, not MDN.
C2_DollarBeforeSeparator ==
    (/\ keyword # <<>>
     /\ RightmostSegment(scope_name) = K_js
     /\ CharBefore(2) = "$")
    => JqueryOnly

C2_Witness ==
    /\ runs = 1
    /\ scope_name = <<"a", ".", "j", "s">>
    /\ pre_text = <<"$", ".">>
    /\ keyword = <<"f">>
    /\ detected = <<K_jquery>>
    /\ opened = << <<"http://api.jquery.com/", "f">> >>

----------------------------------------------------------------------------
(* C3 *)

\* C3: for key python and a non-empty token: a token with no whitespace
\* anywhere starts the local command ["pydoc", token] and opens no URL; a token
\* with whitespace at any position opens the docs.python.org search URL and
\* starts no local command.
C3_PythonWhitespaceAnywhere ==
    (/\ keyword # <<>>
     /\ RightmostSegment(scope_name) = K_python)
    => IF \A i \in DOMAIN keyword : keyword[i] \notin Whitespace
       THEN /\ Len(threads) = runs
            /\ \A t \in DOMAIN threads : threads[t].command = << <<"pydoc">>, keyword >>
            /\ opened = <<>>
       ELSE /\ Len(opened) = runs
            /\ \A i \in 1..runs : opened[i] = UrlFor(K_python, keyword)
            /\ threads = <<>>

----------------------------------------------------------------------------
(* C4 *)

\* Scanning text backward from index i down to index low, with depth closing
\* parentheses still to be matched: the index of the "(" that matches, or 0.
RECURSIVE MatchingOpen(_, _, _, _)
MatchingOpen(text, i, low, depth) ==
    IF i < 1 \/ i < low THEN 0
    ELSE IF text[i] = ")" THEN MatchingOpen(text, i - 1, low, depth + 1)
    ELSE IF text[i] = "(" THEN (IF depth = 0 THEN i
                                ELSE MatchingOpen(text, i - 1, low, depth - 1))
    ELSE MatchingOpen(text, i - 1, low, depth)

\* C4, for a ")" at index q of the text before the token: jquery is detected
\* exactly when the "(" matching that ")" lies within the MaxBackreference
\* characters before it and the character before that "(" is "$"; None
\* otherwise.
SelectorRule(q) ==
    LET open == MatchingOpen(pre_text, q - 1, q - MaxBackreference, 0)
        isJquery == open >= 2 /\ pre_text[open - 1] = "$"
    IN /\ Len(detected) = runs
       /\ \A i \in 1..runs : detected[i] = IF isJquery THEN K_jquery ELSE NoLib

\* C4: key js, non-empty token whose preceding character is ")". The
\* preceding character is taken to be the one the disambiguator reads, the
\* character before the separator next to the token (see C2), so that
\* "$(selector)." and "foo(selector)." are the claim's two examples.
C4_MatchingParenthesis ==
    (/\ keyword # <<>>
     /\ RightmostSegment(scope_name) = K_js
     /\ CharBefore(2) = ")")
    => SelectorRule(Len(pre_text) - 1)

----------------------------------------------------------------------------
(* C5 *)

\* the dispatch key: the rightmost segment of the label, its surrounding
\* whitespace stripped (see C8)
DispatchKey == RightmostSegment(Trimmed(scope_name))

\* C5: for a non-empty token and a label whose dispatch key has no registered
\* handler, no error is raised, each dispatch reports exactly one status
\* message, which contains the dispatch key, no URL is opened and no local
\* command is started.
C5_UnsupportedScope ==
    (/\ keyword # <<>>
     /\ DispatchKey \notin RegisteredKeys)
    => /\ errors = <<>>
       /\ Len(status) = runs
       /\ \A i \in 1..runs : Contains(status[i], DispatchKey)
       /\ opened = <<>>
       /\ threads = <<>>

C5_Witness ==
    /\ runs = 1
    /\ keyword = <<"f">>
    /\ scope_name = <<"a", ".", "x">>
    /\ status = << <<"This scope is not supported: ", "x">> >>
    /\ opened = <<>>

----------------------------------------------------------------------------
(* C6 *)

\* C6: for a non-empty token and any label, no error is raised and each
\* dispatch ends in exactly one of a URL opened, a local command started or a
\* status message; key jquery opens http://api.jquery.com/{token} and key dojo
\* opens http://dojotoolkit.org/api/dojo.{token}.
C6_EveryLabelEndsInOneAction ==
    keyword # <<>>
    => /\ errors = <<>>
       /\ Len(opened) + Len(threads) + Len(status) = runs
       /\ DispatchKey \in {K_jquery, K_dojo}
          => /\ Len(opened) = runs
             /\ \A i \in 1..runs : opened[i] = UrlFor(DispatchKey, keyword)

----------------------------------------------------------------------------
(* C7 *)

\* With the "o" at index q of the text before the token: dojo is detected
\* exactly when the 4 characters ending at q spell "dojo"; then the dojo URL
\* is opened, and otherwise nothing is detected and the MDN URL is opened.
DojoRule(q) ==
    LET isDojo == q >= 4 /\ SubSeq(pre_text, q - 3, q) = K_dojo
    IN /\ Len(detected) = runs
       /\ \A i \in 1..runs : detected[i] = IF isDojo THEN K_dojo ELSE NoLib
       /\ OpenedOnly(UrlFor(IF isDojo THEN K_dojo ELSE K_js, keyword))

\* C7 as stated: key js and the character before the token is "o".
C7_AdjacentO ==
    (/\ keyword # <<>>
     /\ RightmostSegment(scope_name) = K_js
     /\ CharBefore(1) = "o")
    => DojoRule(Len(pre_text))

\* C7 amended: key js and the character two places before the token (the one
\* before the character next to the token, as the last "o" of "dojo.token")
\* is "o": dojo is detected iff the 4 characters ending at that "o" spell
\* "dojo"; then the dojo URL is opened and not MDN; otherwise nothing is
\* detected and the MDN URL is opened.
C7_OBeforeSeparator ==
    (/\ keyword # <<>>
     /\ RightmostSegment(scope_name) = K_js
     /\ CharBefore(2) = "o")
    => DojoRule(Len(pre_text) - 1)

C7_Witness ==
    /\ runs = 1
    /\ pre_text = <<"d", "o", "j", "o", ".">>
    /\ keyword = <<"f">>
    /\ detected = <<K_dojo>>
    /\ opened = << <<"http://dojotoolkit.org/api/dojo.", "f">> >>

----------------------------------------------------------------------------
(* C8 *)

\* C8 as stated: for a non-empty label the dispatch key is the rightmost
\* dot-separated segment of the label, verbatim, with no trimming.
C8_RightmostSegmentVerbatim ==
    scope_name # <<>>
    => \A i \in DOMAIN extracted : extracted[i] = RightmostSegment(scope_name)

\* C8 amended: for a non-empty label the dispatch key is the rightmost
\* dot-separated segment of the label after the label's leading and trailing
\* whitespace has been stripped, otherwise verbatim (no case folding): the
\* whole stripped label when it holds no ".", c for a.b.c. Computing it
\* changes nothing but the record of the key.
C8_RightmostSegmentOfStripped ==
    scope_name # <<>>
    => /\ \A i \in DOMAIN extracted : extracted[i] = RightmostSegment(Trimmed(scope_name))
       /\ (keyword # <<>> => Len(extracted) = runs)

C8_Witness ==
    /\ runs = 1
    /\ scope_name = <<" ", "a", ".", "j", "s", ".", "P", "H", "P", " ">>
    /\ extracted = << <<"P", "H", "P">> >>

----------------------------------------------------------------------------
(* C9 *)

\* C9: every local command that has ended has scheduled exactly one callback:
\* with the captured output when its exit status is 0, with the exit status
\* when it is not; no thread ends with an exception and no callback.
C9_OneCallbackPerCommand ==
    \A t \in DOMAIN threads :
        threads[t].st # "started"
        => /\ threads[t].st = "finished"
           /\ Len(threads[t].calls) = 1
           /\ threads[t].code = 0 => threads[t].calls[1].kind = "output"
           /\ threads[t].code # 0
              => threads[t].calls[1] = [kind |-> "returncode", code |-> threads[t].code]

----------------------------------------------------------------------------
(* C10 *)

\* C10: the output panel is created at most once, on the first display_output
\* call, and after each call it holds exactly the output passed to that call
\* and is read-only.
C10_PanelHoldsLastOutput ==
    /\ panels_created <= 1
    /\ displayed = <<>> => panels_created = 0 /\ panel_text = <<>>
    /\ displayed # <<>>
       => /\ panels_created = 1
          /\ displayed[Len(displayed)].kind = "output"
          /\ panel_text = displayed[Len(displayed)].text
          /\ read_only

C10_Witness ==
    /\ Len(threads) = 2
    /\ Len(displayed) = 2
    /\ displayed[1].text # displayed[2].text
    /\ panel_text = displayed[2].text
    /\ panels_created = 1

====
